---- MODULE Spec2Model ----
(***************************************************************************)
(* pawalogs: command-line utilities that read a SQLite database file and   *)
(* emit JSON describing its tables, schemas and row counts, plus the       *)
(* field analyzer that caches the reply of an external analyzer.           *)
(*                                                                         *)
(* Strings that the code inspects character by character (identifiers,     *)
(* table names) are sequences of one-character strings.                    *)
(***************************************************************************)
EXTENDS Integers, Sequences, FiniteSets, TLC

\* ------------------------------------------------------------------ bounds
MaxIdLen == 3
MaxRows == 1
MaxCols == 2
MaxFks == 1
MaxIdx == 1
MaxListLen == 2
MaxRuns == 3

\* -------------------------------------------------------------- characters
DQ == "\""

\* Code point of the characters the model uses (str comparison in the engine's
\* BINARY collation and in Python is by code point).
Ord(c) ==
    CASE c = DQ -> 34
      [] c = "_" -> 95
      [] c = "e" -> 101
      [] c = "i" -> 105
      [] c = "l" -> 108
      [] c = "o" -> 111
      [] c = "q" -> 113
      [] c = "s" -> 115
      [] c = "t" -> 116
      [] c = "u" -> 117

InternalPrefix == <<"s", "q", "l", "i", "t", "e", "_">>

\* str.startswith
StartsWith(s, p) ==
    /\ Len(s) >= Len(p)
    /\ SubSeq(s, 1, Len(p)) = p

\* s < t for strings, by code point, a proper prefix being smaller
RECURSIVE StrLess(_, _)
StrLess(s, t) ==
    IF t = <<>> THEN FALSE
    ELSE IF s = <<>> THEN TRUE
    ELSE IF s[1] # t[1] THEN Ord(s[1]) < Ord(t[1])
    ELSE StrLess(Tail(s), Tail(t))

\* ------------------------------------------------------- quote_identifier
\* str.replace('"', '""')
RECURSIVE ReplaceQuotes(_)
ReplaceQuotes(s) ==
    IF s = <<>> THEN <<>>
    ELSE (IF s[1] = DQ THEN <<DQ, DQ>> ELSE <<s[1]>>) \o ReplaceQuotes(Tail(s))

\* mutant: wraps the identifier without doubling the embedded quotes
QuoteNoEscape(identifier) == <<DQ>> \o identifier \o <<DQ>>

quote_identifier(identifier) ==
    <<DQ>> \o ReplaceQuotes(identifier) \o <<DQ>>

\* Replace every doubled delimiter by a single one, left to right.
RECURSIVE UnDouble(_)
UnDouble(s) ==
    IF s = <<>> THEN <<>>
    ELSE IF Len(s) >= 2 /\ s[1] = DQ /\ s[2] = DQ
         THEN <<DQ>> \o UnDouble(SubSeq(s, 3, Len(s)))
         ELSE <<s[1]>> \o UnDouble(Tail(s))

\* Strip the outer delimiters, then un-double.
Unquote(q) == UnDouble(SubSeq(q, 2, Len(q) - 1))

\* Inside a delimited identifier every delimiter comes doubled.
RECURSIVE InteriorOk(_)
InteriorOk(s) ==
    IF s = <<>> THEN TRUE
    ELSE IF s[1] # DQ THEN InteriorOk(Tail(s))
    ELSE Len(s) >= 2 /\ s[2] = DQ /\ InteriorOk(SubSeq(s, 3, Len(s)))

\* The engine reads the interpolated text as one delimited identifier.
WellQuoted(q) ==
    /\ Len(q) >= 2
    /\ q[1] = DQ
    /\ q[Len(q)] = DQ
    /\ InteriorOk(SubSeq(q, 2, Len(q) - 1))

\* --------------------------------------------------------- database engine
\* The names a table of the model can have: two plain names, one with an
\* embedded delimiter, and one engine-internal table.
Sq == <<"s", "q">>
Users == <<"u">>
UsersQ == <<"u", DQ>>
Orders == <<"o">>
SqliteSeq == InternalPrefix \o <<"s">>
UserNames == {Sq, Users, UsersQ}
TableNames == UserNames \cup {SqliteSeq}
\* Names a caller may ask for: Orders and the empty name are never tables.
AskNames == TableNames \cup {Orders, <<>>}

Null == "None"

\* A table of the catalog: how many columns, foreign keys, indexes and rows.
Shapes ==
    { [ncols |-> 1, nfks |-> 0, nidx |-> 0],
      [ncols |-> MaxCols, nfks |-> MaxFks, nidx |-> MaxIdx] }
Tables == { [ncols |-> sh.ncols, nfks |-> sh.nfks, nidx |-> sh.nidx, nrows |-> r] :
            sh \in Shapes, r \in 0..MaxRows }
InternalTable == [ncols |-> 1, nfks |-> 0, nidx |-> 0, nrows |-> 1]

\* sqlite_master restricted to type='table': the tables by name (unique).
Catalogs ==
    UNION { [S -> Tables] : S \in SUBSET UserNames }
    \cup
    UNION { { [n \in S \cup {SqliteSeq} |-> IF n = SqliteSeq THEN InternalTable ELSE f[n]] :
              f \in [S -> Tables] } : S \in SUBSET UserNames }

\* ORDER BY name: ascending, BINARY collation
RECURSIVE OrderByName(_)
OrderByName(S) ==
    IF S = {} THEN <<>>
    ELSE LET m == CHOOSE x \in S : \A y \in S \ {x} : StrLess(x, y)
         IN <<m>> \o OrderByName(S \ {m})

\* SELECT name FROM sqlite_master WHERE type='table' ORDER BY name
SelectTableNames(cat) == OrderByName(DOMAIN cat)

\* One row of PRAGMA table_info: (cid, name, type, notnull, dflt_value, pk);
\* the first two columns form the primary key, pk being the position in it.
TableInfoRow(i) ==
    << i - 1, <<"c", i>>, IF i = 1 THEN "INTEGER" ELSE "TEXT", i % 2,
       IF i = 1 THEN Null ELSE "x", IF i <= 2 THEN i ELSE 0 >>

\* One row of PRAGMA foreign_key_list:
\* (id, seq, table, from, to, on_update, on_delete, match)
ForeignKeyRow(j) ==
    << j - 1, 0, Users, <<"c", j>>, <<"c", 1>>, "NO ACTION",
       IF j = 1 THEN "CASCADE" ELSE "NO ACTION", "NONE" >>

\* One row of PRAGMA index_list: (seq, name, unique, origin, partial)
IndexRow(k) ==
    << k - 1, <<"i", k>>, k % 2, IF k = 1 THEN "pk" ELSE "c", (k + 1) % 2 >>

\* A pragma on a name that is no table yields no rows, and no error.
PragmaTableInfo(cat, quoted) ==
    LET n == Unquote(quoted)
    IN IF n \in DOMAIN cat THEN [i \in 1..cat[n].ncols |-> TableInfoRow(i)] ELSE <<>>

PragmaForeignKeyList(cat, quoted) ==
    LET n == Unquote(quoted)
    IN IF n \in DOMAIN cat THEN [j \in 1..cat[n].nfks |-> ForeignKeyRow(j)] ELSE <<>>

PragmaIndexList(cat, quoted) ==
    LET n == Unquote(quoted)
    IN IF n \in DOMAIN cat THEN [k \in 1..cat[n].nidx |-> IndexRow(k)] ELSE <<>>

\* SELECT COUNT(*) FROM <quoted>: an error when the name is no table.
CountKnown(cat, quoted) == WellQuoted(quoted) /\ Unquote(quoted) \in DOMAIN cat
SelectCount(cat, quoted) == cat[Unquote(quoted)].nrows

\* Python's bool() of an integer
Bool(x) == x # 0

\* What a statement leaves of the database.  SELECT and the three
\* introspection pragmas read; ANALYZE, which the code never issues, would add
\* the engine's statistics table to the catalog.
SqliteStat == InternalPrefix \o <<"s", "t">>
ReadOnlyOps == {"select_names", "table_info", "foreign_key_list", "index_list", "count"}

DatabaseAfterStmt(cat, st) ==
    IF st.op \in ReadOnlyOps \/ ~st.ok THEN cat
    ELSE [n \in DOMAIN cat \cup {SqliteStat} |->
            IF n = SqliteStat THEN InternalTable ELSE cat[n]]

RECURSIVE DatabaseAfter(_, _)
DatabaseAfter(cat, q) ==
    IF q = <<>> THEN cat
    ELSE DatabaseAfter(DatabaseAfterStmt(cat, q[1]), Tail(q))

\* ------------------------------------------------------------ the library
\* A call returns [raised, value, stmts]: whether a database error left the
\* function, what it returned otherwise, and the statements it executed, each
\* with the rows the engine answered (ok is FALSE for the statement that failed).
\* fault / failAt is the environment's choice of the statement on which the
\* engine reports an error (locked or unreadable file), FALSE / 0 for none.
Raised(stmts) == [raised |-> TRUE, value |-> Null, stmts |-> stmts]
Returned(v, stmts) == [raised |-> FALSE, value |-> v, stmts |-> stmts]
Stmt(op, arg, rows) == [op |-> op, arg |-> arg, ok |-> TRUE, rows |-> rows]
Failed(op, arg) == [op |-> op, arg |-> arg, ok |-> FALSE, rows |-> <<>>]

NotInternal(t) == ~StartsWith(t, InternalPrefix)

\* mutant: returns the catalog's names without dropping the internal tables
GetTableNamesNoFilter(cat, fault) ==
    IF fault THEN Raised(<<Failed("select_names", Null)>>)
    ELSE Returned(SelectTableNames(cat),
                  <<Stmt("select_names", Null, SelectTableNames(cat))>>)

\* mutant: refreshes the engine's statistics before listing the tables
GetTableNamesAnalyze(cat, fault) ==
    IF fault THEN Raised(<<Failed("select_names", Null)>>)
    ELSE Returned(SelectSeq(SelectTableNames(cat), NotInternal),
                  <<[op |-> "analyze", arg |-> Null, ok |-> TRUE, rows |-> <<>>],
                    Stmt("select_names", Null, SelectTableNames(cat))>>)

get_table_names(cat, fault) ==
    LET tables == SelectTableNames(cat)
    IN IF fault THEN Raised(<<Failed("select_names", Null)>>)
       ELSE Returned(SelectSeq(tables, NotInternal),
                     <<Stmt("select_names", Null, tables)>>)

ColumnInfo(col) ==
    [cid |-> col[1], name |-> col[2], type |-> col[3], not_null |-> Bool(col[4]),
     default_value |-> col[5], primary_key |-> Bool(col[6])]

ForeignKeyInfo(fk) ==
    [id |-> fk[1], seq |-> fk[2], table |-> fk[3], from_column |-> fk[4],
     to_column |-> fk[5], on_update |-> fk[6], on_delete |-> fk[7], match |-> fk[8]]

IndexInfo(idx) ==
    [name |-> idx[2], unique |-> Bool(idx[3]), origin |-> idx[4], partial |-> Bool(idx[5])]

TableSchema(table_name, columns, foreign_keys, indexes) ==
    [table_name |-> table_name, columns |-> columns,
     foreign_keys |-> foreign_keys, indexes |-> indexes]

Reverse(q) == [i \in 1..Len(q) |-> q[Len(q) + 1 - i]]

\* mutant: treats a table without columns as an error
GetTableSchemaStrict(cat, table_name, failAt) ==
    LET quoted_table == quote_identifier(table_name)
        columns_data == PragmaTableInfo(cat, quoted_table)
        foreign_keys_data == PragmaForeignKeyList(cat, quoted_table)
        indexes_data == PragmaIndexList(cat, quoted_table)
        s1 == Stmt("table_info", quoted_table, columns_data)
        s2 == Stmt("foreign_key_list", quoted_table, foreign_keys_data)
        s3 == Stmt("index_list", quoted_table, indexes_data)
    IN IF failAt = 1 \/ ~WellQuoted(quoted_table)
       THEN Raised(<<Failed("table_info", quoted_table)>>)
       ELSE IF columns_data = <<>> THEN Raised(<<s1>>)
       ELSE IF failAt = 2 THEN Raised(<<s1, Failed("foreign_key_list", quoted_table)>>)
       ELSE IF failAt = 3 THEN Raised(<<s1, s2, Failed("index_list", quoted_table)>>)
       ELSE Returned(TableSchema(table_name,
                                 [i \in DOMAIN columns_data |-> ColumnInfo(columns_data[i])],
                                 [i \in DOMAIN foreign_keys_data |->
                                     ForeignKeyInfo(foreign_keys_data[i])],
                                 [i \in DOMAIN indexes_data |-> IndexInfo(indexes_data[i])]),
                     <<s1, s2, s3>>)

\* mutant: builds the columns from the rows in reverse order
GetTableSchemaReversed(cat, table_name, failAt) ==
    LET quoted_table == quote_identifier(table_name)
        columns_data == PragmaTableInfo(cat, quoted_table)
        foreign_keys_data == PragmaForeignKeyList(cat, quoted_table)
        indexes_data == PragmaIndexList(cat, quoted_table)
        s1 == Stmt("table_info", quoted_table, columns_data)
        s2 == Stmt("foreign_key_list", quoted_table, foreign_keys_data)
        s3 == Stmt("index_list", quoted_table, indexes_data)
    IN IF failAt = 1 \/ ~WellQuoted(quoted_table)
       THEN Raised(<<Failed("table_info", quoted_table)>>)
       ELSE IF failAt = 2 THEN Raised(<<s1, Failed("foreign_key_list", quoted_table)>>)
       ELSE IF failAt = 3 THEN Raised(<<s1, s2, Failed("index_list", quoted_table)>>)
       ELSE Returned(TableSchema(table_name,
                                 Reverse([i \in DOMAIN columns_data |->
                                             ColumnInfo(columns_data[i])]),
                                 [i \in DOMAIN foreign_keys_data |->
                                     ForeignKeyInfo(foreign_keys_data[i])],
                                 [i \in DOMAIN indexes_data |-> IndexInfo(indexes_data[i])]),
                     <<s1, s2, s3>>)

get_table_schema(cat, table_name, failAt) ==
    LET quoted_table == quote_identifier(table_name)
        columns_data == PragmaTableInfo(cat, quoted_table)
        columns == [i \in DOMAIN columns_data |-> ColumnInfo(columns_data[i])]
        foreign_keys_data == PragmaForeignKeyList(cat, quoted_table)
        foreign_keys ==
            [i \in DOMAIN foreign_keys_data |-> ForeignKeyInfo(foreign_keys_data[i])]
        indexes_data == PragmaIndexList(cat, quoted_table)
        indexes == [i \in DOMAIN indexes_data |-> IndexInfo(indexes_data[i])]
        s1 == Stmt("table_info", quoted_table, columns_data)
        s2 == Stmt("foreign_key_list", quoted_table, foreign_keys_data)
        s3 == Stmt("index_list", quoted_table, indexes_data)
    IN IF failAt = 1 \/ ~WellQuoted(quoted_table)
       THEN Raised(<<Failed("table_info", quoted_table)>>)
       ELSE IF failAt = 2 THEN Raised(<<s1, Failed("foreign_key_list", quoted_table)>>)
       ELSE IF failAt = 3 THEN Raised(<<s1, s2, Failed("index_list", quoted_table)>>)
       ELSE Returned(TableSchema(table_name, columns, foreign_keys, indexes),
                     <<s1, s2, s3>>)

\* dict item assignment
SetItem(d, k, v) == [x \in DOMAIN d \cup {k} |-> IF x = k THEN v ELSE d[x]]
EmptyDict == [x \in {} |-> 0]

\* mutant: the loop with the filter "count > min_rows"
RECURSIVE CountLoopStrict(_, _, _, _, _, _, _)
CountLoopStrict(cat, table_names, min_rows, failAt, i, counts, stmts) ==
    IF i > Len(table_names) THEN Returned(counts, stmts)
    ELSE LET table_name == table_names[i]
             quoted_table == quote_identifier(table_name)
         IN IF failAt = i \/ ~CountKnown(cat, quoted_table)
            THEN Raised(Append(stmts, Failed("count", quoted_table)))
            ELSE LET count == SelectCount(cat, quoted_table)
                 IN CountLoopStrict(cat, table_names, min_rows, failAt, i + 1,
                                    IF count > min_rows
                                    THEN SetItem(counts, table_name, count)
                                    ELSE counts,
                                    Append(stmts, Stmt("count", quoted_table, <<count>>)))

\* mutant: the loop that skips a table whose count fails and goes on
RECURSIVE CountLoopSkip(_, _, _, _, _, _, _)
CountLoopSkip(cat, table_names, min_rows, failAt, i, counts, stmts) ==
    IF i > Len(table_names) THEN Returned(counts, stmts)
    ELSE LET table_name == table_names[i]
             quoted_table == quote_identifier(table_name)
         IN IF failAt = i \/ ~CountKnown(cat, quoted_table)
            THEN CountLoopSkip(cat, table_names, min_rows, failAt, i + 1, counts,
                               Append(stmts, Failed("count", quoted_table)))
            ELSE LET count == SelectCount(cat, quoted_table)
                 IN CountLoopSkip(cat, table_names, min_rows, failAt, i + 1,
                                  IF count >= min_rows
                                  THEN SetItem(counts, table_name, count)
                                  ELSE counts,
                                  Append(stmts, Stmt("count", quoted_table, <<count>>)))

\* The loop of get_table_counts from its i-th table on.
RECURSIVE CountLoop(_, _, _, _, _, _, _)
CountLoop(cat, table_names, min_rows, failAt, i, counts, stmts) ==
    IF i > Len(table_names) THEN Returned(counts, stmts)
    ELSE LET table_name == table_names[i]
             quoted_table == quote_identifier(table_name)
         IN IF failAt = i \/ ~CountKnown(cat, quoted_table)
            THEN Raised(Append(stmts, Failed("count", quoted_table)))
            ELSE LET count == SelectCount(cat, quoted_table)
                 IN CountLoop(cat, table_names, min_rows, failAt, i + 1,
                              IF count >= min_rows
                              THEN SetItem(counts, table_name, count)
                              ELSE counts,
                              Append(stmts, Stmt("count", quoted_table, <<count>>)))

get_table_counts(cat, table_names, min_rows, failAt) ==
    CountLoop(cat, table_names, min_rows, failAt, 1, EmptyDict, <<>>)

\* ------------------------------------------------------------------ state
VARIABLES
    cmd,          \* the entry point of this run: "lib" (direct calls of the
                  \* functions), "inspector", "counts" or "analyzer"
    catalog,      \* the database: its tables by name
    libCall,      \* library calls: the call in progress
    libRet,       \* library calls: what that call returned
    prevNames,    \* library calls: the last list get_table_names returned
    seen,         \* session of calls: earlier calls kept for comparison, each
                  \*                   with the database it ran on and its result
    path,         \* commands: what db_path names, "missing", "dir" or "file"
    args,         \* commands: the parsed arguments
    pc,           \* commands: position in main()
    conn,         \* commands: the connection, "none", "open" or "closed"
    stmts,        \* commands: the statements executed so far, in order
    table_names,  \* commands: main's table_names
    result,       \* commands: main's schemas / counts
    loopAt,       \* inspector: index of the next table of the loop
    stdout,       \* commands: the documents written to standard output
    files,        \* commands: the output files opened for writing, with content
    stderr,       \* commands: the messages written to standard error
    exitStatus,   \* commands: the exit status, once pc = "exit"
    cause,        \* commands: what ended the run
    schemasFile,  \* analyzer: the schema file of this run, "missing" or its bytes
    cache,        \* analyzer: the files of .pawalogs_cache, analysis by content hash
    cacheAtStart, \* analyzer: the cache as this run found it
    analysis,     \* analyzer: main's analysis
    invoked,      \* analyzer: whether this run invoked the external analyzer
    runs,         \* analyzer: the runs started so far
    produced,     \* analyzer: by file content, every analysis a run before this
                  \*           one got from a successful invocation
    lastProduced  \* analyzer: by file content, the latest of them

libVars == <<libCall, libRet, prevNames, seen>>
envVars == <<cmd, catalog, path, args>>
runVars == <<pc, conn, stmts, table_names, result, loopAt, stdout, files, stderr,
             exitStatus, cause>>
faVars == <<schemasFile, cache, cacheAtStart, analysis, invoked, runs, produced,
            lastProduced>>
vars == <<envVars, libVars, runVars, faVars>>

\* ------------------------------------------- calls of the library functions
RECURSIVE SeqsUpTo(_, _)
SeqsUpTo(S, n) ==
    IF n = 0 THEN {<<>>}
    ELSE LET shorter == SeqsUpTo(S, n - 1)
         IN shorter \cup { Append(q, x) : q \in shorter, x \in S }

Identifiers == SeqsUpTo({DQ, "u"}, MaxIdLen)
CountNames == {Sq, UsersQ, Orders}
NameLists == SeqsUpTo(CountNames, MaxListLen)
MinRowsValues == (0 - 1)..(MaxRows + 1)

Idle == [fn |-> "idle"]

NoArgs == [output |-> FALSE, table_name |-> <<>>, min_rows |-> 0]

FaIdle ==
    /\ schemasFile = "missing"
    /\ cache = EmptyDict
    /\ cacheAtStart = EmptyDict
    /\ analysis = Null
    /\ invoked = FALSE
    /\ runs = 0
    /\ produced = EmptyDict
    /\ lastProduced = EmptyDict

RunInit ==
    /\ conn = "none"
    /\ stmts = <<>>
    /\ table_names = <<>>
    /\ result = EmptyDict
    /\ loopAt = 1
    /\ stdout = <<>>
    /\ files = EmptyDict
    /\ stderr = <<>>
    /\ exitStatus = 0
    /\ cause = "running"

LibInit ==
    /\ cmd = "lib"
    /\ catalog \in Catalogs
    /\ path = "file"
    /\ args = NoArgs
    /\ pc = "lib"
    /\ RunInit
    /\ FaIdle
    /\ libCall = Idle
    /\ libRet = Null
    /\ prevNames = Null
    /\ seen = {}

CallQuoteIdentifier ==
    /\ cmd = "lib"
    /\ libCall = Idle
    /\ \E identifier \in Identifiers :
        /\ libCall' = [fn |-> "quote_identifier", identifier |-> identifier]
        /\ libRet' = Returned(quote_identifier(identifier), <<>>)
    /\ UNCHANGED <<envVars, faVars, runVars, prevNames, seen>>

CallGetTableNames ==
    /\ cmd = "lib"
    /\ libCall = Idle
    /\ \E fault \in BOOLEAN :
        /\ libCall' = [fn |-> "get_table_names", fault |-> fault]
        /\ libRet' = get_table_names(catalog, fault)
    /\ catalog' = DatabaseAfter(catalog, libRet'.stmts)
    /\ UNCHANGED <<cmd, path, args, faVars, runVars, prevNames, seen>>

CallGetTableSchema ==
    /\ cmd = "lib"
    /\ libCall = Idle
    /\ \E table_name \in AskNames, failAt \in 0..3 :
        /\ libCall' = [fn |-> "get_table_schema", table_name |-> table_name,
                       failAt |-> failAt]
        /\ libRet' = get_table_schema(catalog, table_name, failAt)
    /\ catalog' = DatabaseAfter(catalog, libRet'.stmts)
    /\ UNCHANGED <<cmd, path, args, faVars, runVars, prevNames, seen>>

CallGetTableCounts ==
    /\ cmd = "lib"
    /\ libCall = Idle
    /\ \E names \in NameLists, min_rows \in MinRowsValues :
        \E failAt \in 0..Len(names) :
            /\ libCall' = [fn |-> "get_table_counts", table_names |-> names,
                           min_rows |-> min_rows, failAt |-> failAt]
            /\ libRet' = get_table_counts(catalog, names, min_rows, failAt)
    /\ catalog' = DatabaseAfter(catalog, libRet'.stmts)
    /\ UNCHANGED <<cmd, path, args, faVars, runVars, prevNames, seen>>

\* The caller takes the result; the next call can start.
LibReturn ==
    /\ libCall # Idle
    /\ prevNames' = IF libCall.fn = "get_table_names" /\ ~libRet.raised
                    THEN libRet.value ELSE prevNames
    /\ libCall' = Idle
    /\ libRet' = Null
    /\ UNCHANGED <<envVars, faVars, runVars, seen>>

\* ------------------------------------------- the two database commands
\* table_name arguments of the inspector: none (all tables), a table, a name
\* that is no table, and two names.
ArgTableLists == {<<>>, <<Users>>, <<Orders>>, <<UsersQ, Sq>>}

CmdInit ==
    /\ cmd \in {"inspector", "counts"}
    /\ path \in {"missing", "dir", "file"}
    /\ catalog \in (IF path = "file" THEN Catalogs ELSE {EmptyDict})
    /\ args \in [output : BOOLEAN,
                 table_name : (IF cmd = "inspector" THEN ArgTableLists ELSE {<<>>}),
                 min_rows : (IF cmd = "counts" THEN MinRowsValues ELSE {0})]
    /\ pc = "start"
    /\ libCall = Idle
    /\ libRet = Null
    /\ prevNames = Null
    /\ seen = {}
    /\ RunInit
    /\ FaIdle

\* print(..., file=sys.stderr); sys.exit(1)
ExitWith(message, why) ==
    /\ stderr' = Append(stderr, message)
    /\ exitStatus' = 1
    /\ cause' = why
    /\ pc' = "exit"

\* except sqlite3.Error as e: print(...); sys.exit(1)
ExceptSqliteError == ExitWith("Error reading database", "db_error")

\* An exception main() does not catch: the interpreter prints the traceback
\* and exits with status 1.
Uncaught == ExitWith("Traceback", "uncaught")

\* main() returns: the interpreter exits with status 0.
ExitOk ==
    /\ exitStatus' = 0
    /\ cause' = "ok"
    /\ pc' = "exit"
    /\ UNCHANGED stderr

\* mutant: the path checks report the error but let the run go on
CheckPathLenient ==
    /\ cmd \in {"inspector", "counts"}
    /\ pc = "start"
    /\ pc' = "connect"
    /\ stderr' = IF path = "missing" THEN Append(stderr, "Error: Database file not found")
                 ELSE IF path = "dir" THEN Append(stderr, "Error: Path is not a file")
                 ELSE stderr
    /\ UNCHANGED <<exitStatus, cause>>
    /\ UNCHANGED <<envVars, faVars, libVars, conn, stmts, table_names, result, loopAt, stdout, files>>

\* db_file.exists() / db_file.is_file()
CheckPath ==
    /\ cmd \in {"inspector", "counts"}
    /\ pc = "start"
    /\ IF path = "missing" THEN ExitWith("Error: Database file not found", "not_found")
       ELSE IF path = "dir" THEN ExitWith("Error: Path is not a file", "not_file")
       ELSE pc' = "connect" /\ UNCHANGED <<stderr, exitStatus, cause>>
    /\ UNCHANGED <<envVars, faVars, libVars, conn, stmts, table_names, result, loopAt, stdout, files>>

\* conn = sqlite3.connect(db_file); cursor = conn.cursor()
Connect ==
    /\ cmd \in {"inspector", "counts"}
    /\ pc = "connect"
    /\ \E ok \in BOOLEAN :
        IF ok
        THEN /\ conn' = "open"
             /\ pc' = "names"
             /\ stderr' = IF cmd = "inspector" /\ args.output
                          THEN Append(stderr, "Reading database") ELSE stderr
             /\ UNCHANGED <<exitStatus, cause>>
        ELSE /\ ExceptSqliteError
             /\ UNCHANGED conn
    /\ UNCHANGED <<envVars, faVars, libVars, stmts, table_names, result, loopAt, stdout, files>>

\* mutant: writes tables.json as soon as the table names are known
InspectorTableNamesEager ==
    /\ cmd = "inspector"
    /\ pc = "names"
    /\ \E fault \in BOOLEAN :
        LET r == IF args.table_name # <<>> THEN Returned(args.table_name, <<>>)
                 ELSE get_table_names(catalog, fault)
        IN /\ stmts' = stmts \o r.stmts
           /\ IF r.raised
              THEN ExceptSqliteError /\ UNCHANGED <<table_names, files>>
              ELSE /\ table_names' = r.value
                   /\ files' = IF args.output
                               THEN SetItem(files, "tables.json", [tables |-> r.value])
                               ELSE files
                   /\ pc' = "schemas"
                   /\ stderr' = IF args.output THEN Append(stderr, "Found tables")
                                ELSE stderr
                   /\ UNCHANGED <<exitStatus, cause>>
    /\ UNCHANGED <<envVars, faVars, libVars, conn, result, loopAt, stdout>>

\* inspector: table_names = args.table_name or get_table_names(cursor)
InspectorTableNames ==
    /\ cmd = "inspector"
    /\ pc = "names"
    /\ IF args.table_name # <<>>
       THEN /\ table_names' = args.table_name
            /\ pc' = "schemas"
            /\ stderr' = IF args.output THEN Append(stderr, "Found tables") ELSE stderr
            /\ UNCHANGED <<stmts, exitStatus, cause>>
       ELSE \E fault \in BOOLEAN :
            LET r == get_table_names(catalog, fault)
            IN /\ stmts' = stmts \o r.stmts
               /\ IF r.raised
                  THEN ExceptSqliteError /\ UNCHANGED table_names
                  ELSE /\ table_names' = r.value
                       /\ pc' = "schemas"
                       /\ stderr' = IF args.output THEN Append(stderr, "Found tables")
                                    ELSE stderr
                       /\ UNCHANGED <<exitStatus, cause>>
    /\ UNCHANGED <<envVars, faVars, libVars, conn, result, loopAt, stdout, files>>

\* inspector: one turn of "for table_name in table_names"
InspectorSchema ==
    /\ cmd = "inspector"
    /\ pc = "schemas"
    /\ loopAt <= Len(table_names)
    /\ \E failAt \in 0..3 :
        LET table_name == table_names[loopAt]
            r == get_table_schema(catalog, table_name, failAt)
            said == IF args.output THEN Append(stderr, "Extracting schema") ELSE stderr
        IN /\ stmts' = stmts \o r.stmts
           /\ IF r.raised
              THEN /\ stderr' = Append(said, "Error reading database")
                   /\ exitStatus' = 1
                   /\ cause' = "db_error"
                   /\ pc' = "exit"
                   /\ UNCHANGED <<result, loopAt>>
              ELSE /\ result' = SetItem(result, table_name, r.value)
                   /\ loopAt' = loopAt + 1
                   /\ stderr' = said
                   /\ UNCHANGED <<pc, exitStatus, cause>>
    /\ UNCHANGED <<envVars, faVars, libVars, conn, table_names, stdout, files>>

\* inspector: conn.close() after the loop
InspectorClose ==
    /\ cmd = "inspector"
    /\ pc = "schemas"
    /\ loopAt > Len(table_names)
    /\ conn' = "closed"
    /\ pc' = "output"
    /\ UNCHANGED <<envVars, faVars, libVars, stmts, table_names, result, loopAt, stdout, files,
                   stderr, exitStatus, cause>>

\* inspector: the output directory with tables.json and schemas.json, or the
\* combined document on standard output.  failStep is the environment's choice
\* of the file that cannot be created (OSError), 0 for none.
InspectorOutput ==
    /\ cmd = "inspector"
    /\ pc = "output"
    /\ IF args.output
       THEN \E failStep \in 0..2 :
            /\ files' = IF failStep = 1 THEN files
                        ELSE IF failStep = 2
                        THEN SetItem(files, "tables.json", [tables |-> table_names])
                        ELSE SetItem(SetItem(files, "tables.json", [tables |-> table_names]),
                                     "schemas.json", result)
            /\ IF failStep = 0
               THEN /\ stderr' = stderr \o <<"Table names written", "Table schemas written",
                                             "Schema extraction complete!">>
                    /\ ExitOk!1 /\ ExitOk!2 /\ ExitOk!3
               ELSE /\ stderr' = (IF failStep = 2 THEN Append(stderr, "Table names written")
                                  ELSE stderr) \o <<"Traceback">>
                    /\ exitStatus' = 1
                    /\ cause' = "uncaught"
                    /\ pc' = "exit"
            /\ UNCHANGED stdout
       ELSE /\ stdout' = Append(stdout, [tables |-> table_names, schemas |-> result])
            /\ ExitOk
            /\ UNCHANGED files
    /\ UNCHANGED <<envVars, faVars, libVars, conn, stmts, table_names, result, loopAt>>

\* counts: table_names = get_table_names(cursor)
CountsTableNames ==
    /\ cmd = "counts"
    /\ pc = "names"
    /\ \E fault \in BOOLEAN :
        LET r == get_table_names(catalog, fault)
        IN /\ stmts' = stmts \o r.stmts
           /\ IF r.raised
              THEN ExceptSqliteError /\ UNCHANGED table_names
              ELSE /\ table_names' = r.value
                   /\ pc' = "counts"
                   /\ UNCHANGED <<stderr, exitStatus, cause>>
    /\ UNCHANGED <<envVars, faVars, libVars, conn, result, loopAt, stdout, files>>

\* counts: counts = get_table_counts(cursor, table_names, min_rows=args.min_rows)
CountsTableCounts ==
    /\ cmd = "counts"
    /\ pc = "counts"
    /\ \E failAt \in 0..Len(table_names) :
        LET r == get_table_counts(catalog, table_names, args.min_rows, failAt)
        IN /\ stmts' = stmts \o r.stmts
           /\ IF r.raised
              THEN ExceptSqliteError /\ UNCHANGED result
              ELSE /\ result' = r.value
                   /\ pc' = "output"
                   /\ UNCHANGED <<stderr, exitStatus, cause>>
    /\ UNCHANGED <<envVars, faVars, libVars, conn, table_names, loopAt, stdout, files>>

\* counts: output_data as main() builds it
OutputData ==
    [database |-> "db", total_tables |-> Len(table_names),
     filtered_tables |-> Cardinality(DOMAIN result),
     min_rows_filter |-> args.min_rows, table_counts |-> result]

\* counts: the output file, or standard output.  failStep = 1: the file cannot
\* be created (OSError), which main() does not catch.
CountsOutput ==
    /\ cmd = "counts"
    /\ pc = "output"
    /\ IF args.output
       THEN \E failStep \in 0..1 :
            IF failStep = 0
            THEN /\ files' = SetItem(files, "counts.json", OutputData)
                 /\ stderr' = Append(stderr, "Table counts written")
                 /\ pc' = "close"
                 /\ UNCHANGED <<stdout, exitStatus, cause>>
            ELSE /\ Uncaught
                 /\ UNCHANGED <<stdout, files>>
       ELSE /\ stdout' = Append(stdout, OutputData)
            /\ pc' = "close"
            /\ UNCHANGED <<files, stderr, exitStatus, cause>>
    /\ UNCHANGED <<envVars, faVars, libVars, conn, stmts, table_names, result, loopAt>>

\* counts: conn.close(), the last statement of the try block
CountsClose ==
    /\ cmd = "counts"
    /\ pc = "close"
    /\ conn' = "closed"
    /\ ExitOk
    /\ UNCHANGED <<envVars, faVars, libVars, stmts, table_names, result, loopAt, stdout, files>>

CmdNext ==
    \/ CheckPath
    \/ Connect
    \/ InspectorTableNames
    \/ InspectorSchema
    \/ InspectorClose
    \/ InspectorOutput
    \/ CountsTableNames
    \/ CountsTableCounts
    \/ CountsOutput
    \/ CountsClose

\* ------------------------------------------------------ the field analyzer
\* Schema files: two that parse and one that is not JSON.
Contents == {"c1", "c2", "bad"}
ValidJson(c) == c # "bad"

\* sha256(f.read()).hexdigest()[:16]: the cache file's name for this content
ContentHash(c) ==
    CASE c = "c1" -> "field_analysis_6fd2"
      [] c = "c2" -> "field_analysis_1b9c"
      [] c = "bad" -> "field_analysis_e07a"

\* What the external analyzer may answer: it is not deterministic.
Analyses == {"a1", "a2"}

AnalyzerInit ==
    /\ cmd = "analyzer"
    /\ catalog = EmptyDict
    /\ path = "file"
    /\ args = [force |-> FALSE, output |-> FALSE]
    /\ pc = "idle"
    /\ libCall = Idle
    /\ libRet = Null
    /\ prevNames = Null
    /\ seen = {}
    /\ RunInit
    /\ FaIdle

\* A run starts: the arguments are parsed, the schema file is whatever the
\* user left there; main() checks that it exists and loads it.
AnalyzerStart ==
    /\ cmd = "analyzer"
    /\ pc \in {"idle", "exit"}
    /\ runs < MaxRuns
    /\ runs' = runs + 1
    /\ \E f \in Contents \cup {"missing"}, force \in BOOLEAN, output \in BOOLEAN :
        /\ schemasFile' = f
        /\ args' = [force |-> force, output |-> output]
        /\ IF f = "missing"
           THEN /\ stderr' = <<"Error: Schemas file not found">>
                /\ exitStatus' = 1
                /\ cause' = "not_found"
                /\ pc' = "exit"
           ELSE IF ~ValidJson(f)
           THEN /\ stderr' = <<"Traceback">>
                /\ exitStatus' = 1
                /\ cause' = "uncaught"
                /\ pc' = "exit"
           ELSE /\ stderr' = <<>>
                /\ exitStatus' = 0
                /\ cause' = "running"
                /\ pc' = "cache"
    /\ cacheAtStart' = cache
    /\ analysis' = Null
    /\ invoked' = FALSE
    /\ stdout' = <<>>
    /\ files' = EmptyDict
    /\ IF invoked /\ analysis # Null
       THEN /\ produced' = SetItem(produced, schemasFile,
                                   (IF schemasFile \in DOMAIN produced
                                    THEN produced[schemasFile] ELSE {}) \cup {analysis})
            /\ lastProduced' = SetItem(lastProduced, schemasFile, analysis)
       ELSE UNCHANGED <<produced, lastProduced>>
    /\ UNCHANGED <<cmd, catalog, path, libVars, conn, stmts, table_names, result, loopAt,
                   cache>>

\* load_cached_result
LoadCachedResult(cache_path) ==
    IF cache_path \in DOMAIN cache THEN cache[cache_path] ELSE Null

\* mutant: looks the cache up even when --force is given
AnalyzerCacheIgnoresForce ==
    /\ cmd = "analyzer"
    /\ pc = "cache"
    /\ analysis' = LoadCachedResult(ContentHash(schemasFile))
    /\ pc' = "analyze"
    /\ UNCHANGED <<envVars, libVars, conn, stmts, table_names, result, loopAt, stdout,
                   files, stderr, exitStatus, cause, schemasFile, cache, cacheAtStart,
                   invoked, runs, produced, lastProduced>>

\* cache_path = get_cache_path(schemas_path); analysis = None;
\* if not args.force: analysis = load_cached_result(cache_path)
AnalyzerCache ==
    /\ cmd = "analyzer"
    /\ pc = "cache"
    /\ analysis' = IF ~args.force THEN LoadCachedResult(ContentHash(schemasFile)) ELSE Null
    /\ pc' = "analyze"
    /\ UNCHANGED <<envVars, libVars, conn, stmts, table_names, result, loopAt, stdout,
                   files, stderr, exitStatus, cause, schemasFile, cache, cacheAtStart,
                   invoked, runs, produced, lastProduced>>

\* if analysis is None: analysis = invoke_claude(prompt); save_to_cache(...)
\* invoke_claude leaves through sys.exit(1) when the subprocess fails or its
\* reply does not parse.
AnalyzerInvoke ==
    /\ cmd = "analyzer"
    /\ pc = "analyze"
    /\ IF analysis = Null
       THEN /\ invoked' = TRUE
            /\ \E reply \in Analyses \cup {"failed"} :
                IF reply = "failed"
                THEN /\ stderr' = Append(stderr, "Error invoking Claude")
                     /\ exitStatus' = 1
                     /\ cause' = "analyzer_failed"
                     /\ pc' = "exit"
                     /\ UNCHANGED <<analysis, cache>>
                ELSE /\ analysis' = reply
                     /\ cache' = SetItem(cache, ContentHash(schemasFile), reply)
                     /\ pc' = "output"
                     /\ UNCHANGED <<stderr, exitStatus, cause>>
       ELSE /\ pc' = "output"
            /\ UNCHANGED <<invoked, analysis, cache, stderr, exitStatus, cause>>
    /\ UNCHANGED <<envVars, libVars, conn, stmts, table_names, result, loopAt, stdout,
                   files, schemasFile, cacheAtStart, runs, produced, lastProduced>>

\* The analysis goes to the output file or to standard output.  failed: the
\* output file cannot be created (OSError), which main() does not catch.
AnalyzerOutput ==
    /\ cmd = "analyzer"
    /\ pc = "output"
    /\ IF args.output
       THEN \E failed \in BOOLEAN :
            IF failed
            THEN Uncaught /\ UNCHANGED <<stdout, files>>
            ELSE /\ files' = SetItem(files, "analysis.json", analysis)
                 /\ stdout' = Append(stdout, "Analysis written")
                 /\ ExitOk
       ELSE /\ stdout' = Append(stdout, analysis)
            /\ ExitOk
            /\ UNCHANGED files
    /\ UNCHANGED <<envVars, libVars, conn, stmts, table_names, result, loopAt, faVars>>

AnalyzerNext ==
    \/ AnalyzerStart
    \/ AnalyzerCache
    \/ AnalyzerInvoke
    \/ AnalyzerOutput

LibNext ==
    \/ CallQuoteIdentifier
    \/ CallGetTableNames
    \/ CallGetTableSchema
    \/ CallGetTableCounts
    \/ LibReturn

Init == LibInit \/ CmdInit \/ AnalyzerInit

Next == LibNext \/ CmdNext \/ AnalyzerNext

Spec == Init /\ [][Next]_vars

\* ------------------------------------------------ a session of calls
\* One cursor, any sequence of calls of the three functions, and between two
\* calls another process may commit a change to the database.  One earlier
\* call is kept, with the database it ran on and its result.
SessionCatalogs == { c \in Catalogs : DOMAIN c \subseteq {Sq, SqliteSeq} }

\* The calls that may be kept for comparison.
KeptCalls ==
    { [fn |-> "get_table_names", fault |-> FALSE] }
    \cup { [fn |-> "get_table_schema", table_name |-> t, failAt |-> 0] : t \in {Sq, Orders} }
    \cup { [fn |-> "get_table_counts", table_names |-> q, min_rows |-> n, failAt |-> 0] :
           q \in {<<Sq>>, <<Sq, Sq>>}, n \in {0, MaxRows} }

SessionInit ==
    /\ LibInit
    /\ catalog \in SessionCatalogs

OtherProcessWrites ==
    /\ cmd = "lib"
    /\ libCall = Idle
    /\ catalog' \in SessionCatalogs \ {catalog}
    /\ UNCHANGED <<cmd, path, args, libVars, runVars, faVars>>

\* The caller takes the result, and may keep the call for comparison.
SessionReturn ==
    /\ cmd = "lib"
    /\ libCall # Idle
    /\ \E keep \in BOOLEAN :
        seen' = IF keep /\ seen = {} /\ libCall \in KeptCalls
                THEN {[call |-> libCall, cat |-> catalog, ret |-> libRet]}
                ELSE seen
    /\ libCall' = Idle
    /\ libRet' = Null
    /\ UNCHANGED <<envVars, faVars, runVars, prevNames>>

SessionNext ==
    \/ CallGetTableNames
    \/ CallGetTableSchema
    \/ CallGetTableCounts
    \/ SessionReturn
    \/ OtherProcessWrites

SpecSession == SessionInit /\ [][SessionNext]_vars

\* ================================================================= claims
ToSet(q) == { q[i] : i \in DOMAIN q }
IsCommand == cmd \in {"inspector", "counts"}
NoOutput == stdout = <<>> /\ DOMAIN files = {}
SomeStmtFailed == \E i \in DOMAIN stmts : ~stmts[i].ok
\* connect raised: the checks passed, the run is over and no connection exists
ConnectFailed == path = "file" /\ pc = "exit" /\ conn = "none"
DbErrorOccurred == ConnectFailed \/ SomeStmtFailed

\* C1 (as claimed): in both database commands, once the connection has been
\* opened it is closed on every exit path, the database-error path included.
C1_ClosedOnEveryExit ==
    (IsCommand /\ pc = "exit" /\ conn # "none") => conn = "closed"

\* C2: when no count query fails, get_table_counts returns exactly the input
\* tables whose true row count is >= min_rows, each with its true count; so
\* with min_rows = 0 the command reports every enumerated table and
\* filtered_tables = total_tables.
CountsAsClaimed(names, min_rows, counts) ==
    /\ \A t \in ToSet(names) : t \in DOMAIN catalog
    /\ DOMAIN counts =
         { t \in ToSet(names) : t \in DOMAIN catalog /\ catalog[t].nrows >= min_rows }
    /\ \A t \in DOMAIN counts : counts[t] = catalog[t].nrows

CountsDone ==
    cmd = "counts" /\ (pc \in {"output", "close"} \/ (pc = "exit" /\ cause \in {"ok", "uncaught"}))

C2_CountsExactlyAtLeastMinRows ==
    /\ (libCall.fn = "get_table_counts" /\ ~libRet.raised)
         => CountsAsClaimed(libCall.table_names, libCall.min_rows, libRet.value)
    /\ CountsDone => CountsAsClaimed(table_names, args.min_rows, result)
    /\ (CountsDone /\ args.min_rows = 0) =>
         /\ DOMAIN result = { t \in DOMAIN catalog : ~StartsWith(t, InternalPrefix) }
         /\ DOMAIN result = ToSet(table_names)
         /\ \A i \in DOMAIN stdout : stdout[i].filtered_tables = stdout[i].total_tables
         /\ \A f \in DOMAIN files : files[f].filtered_tables = files[f].total_tables

C2_Witness ==
    /\ libCall.fn = "get_table_counts"
    /\ ~libRet.raised
    /\ libCall.table_names = <<Sq, UsersQ>>
    /\ libCall.min_rows = 1
    /\ DOMAIN libRet.value = {UsersQ}

\* C3: quote_identifier(S) starts and ends with the delimiter, and stripping
\* the outer delimiters and un-doubling the inner ones gives S back.
C3_QuoteRoundTrip ==
    libCall.fn = "quote_identifier" =>
        LET q == libRet.value
        IN /\ Len(q) >= 2
           /\ q[1] = DQ
           /\ q[Len(q)] = DQ
           /\ Unquote(q) = libCall.identifier

C3_Witness ==
    /\ libCall.fn = "quote_identifier"
    /\ libCall.identifier = <<DQ, DQ>>
    /\ libRet.value = <<DQ, DQ, DQ, DQ, DQ, DQ>>

\* C4: get_table_names returns exactly the catalog's table names that do not
\* start with 'sqlite_', in ascending lexical order, and a second call on the
\* unchanged catalog returns the same list.
C4_NamesFilteredSortedStable ==
    (libCall.fn = "get_table_names" /\ ~libRet.raised) =>
        LET v == libRet.value
        IN /\ ToSet(v) = { t \in DOMAIN catalog : ~StartsWith(t, InternalPrefix) }
           /\ \A i, j \in DOMAIN v : i < j => StrLess(v[i], v[j])
           /\ prevNames # Null => v = prevNames

C4_Witness ==
    /\ libCall.fn = "get_table_names"
    /\ ~libRet.raised
    /\ DOMAIN catalog = TableNames
    /\ prevNames # Null
    /\ libRet.value = <<Sq, Users, UsersQ>>

\* C5 (as claimed): a database command exits with status 1 and a message on
\* standard error when the path is missing, is not a regular file, or a
\* database error occurs; on every other run it exits with status 0.
C5_ExitStatusAsClaimed ==
    (IsCommand /\ pc = "exit") =>
        /\ (path \in {"missing", "dir"} \/ DbErrorOccurred)
             => (exitStatus = 1 /\ stderr # <<>>)
        /\ ~(path \in {"missing", "dir"} \/ DbErrorOccurred) => exitStatus = 0

\* C5 (amended): status 1 with a message on standard error in those three
\* cases; a run that none of them ends exits with status 0 unless an exception
\* main() does not catch (the output file cannot be created) ends it, and then
\* the status is 1 with the traceback on standard error.
C5_ExitStatus ==
    (IsCommand /\ pc = "exit") =>
        /\ exitStatus \in {0, 1}
        /\ (path \in {"missing", "dir"} \/ DbErrorOccurred)
             => (exitStatus = 1 /\ stderr # <<>> /\ cause \in {"not_found", "not_file", "db_error"})
        /\ ~(path \in {"missing", "dir"} \/ DbErrorOccurred) =>
             \/ exitStatus = 0 /\ cause = "ok"
             \/ /\ exitStatus = 1
                /\ cause = "uncaught"
                /\ args.output
                /\ stderr[Len(stderr)] = "Traceback"

C5_Witness ==
    /\ cmd = "counts"
    /\ pc = "exit"
    /\ exitStatus = 1
    /\ SomeStmtFailed
    /\ Len(stmts) >= 2

\* C6: no output file is opened and nothing is written to standard output
\* until every database query of the run has completed successfully; a run
\* ended by a user-input error or a database error writes no output.
AllQueriesSucceeded ==
    /\ \A i \in DOMAIN stmts : stmts[i].ok
    /\ Len(stmts) =
         IF cmd = "counts" THEN 1 + Len(table_names)
         ELSE (IF args.table_name = <<>> THEN 1 ELSE 0) + 3 * Len(table_names)
    /\ cmd = "inspector" => loopAt = Len(table_names) + 1

C6_NoOutputBeforeQueriesDone ==
    IsCommand =>
        /\ ~NoOutput => AllQueriesSucceeded
        /\ (path \in {"missing", "dir"} \/ DbErrorOccurred) => NoOutput
        /\ (pc = "exit" /\ cause \in {"not_found", "not_file", "db_error"}) => NoOutput

C6_Witness ==
    /\ cmd = "inspector"
    /\ pc = "exit"
    /\ args.output
    /\ args.table_name = <<>>
    /\ "schemas.json" \in DOMAIN files
    /\ Len(stmts) >= 4

\* C7: for a name that is no table of the catalog, get_table_schema does not
\* raise (the engine answering its three statements): it returns a
\* TableSchema with the requested name and three empty sequences.
C7_MissingTableEmptySchema ==
    (/\ libCall.fn = "get_table_schema"
     /\ libCall.table_name \notin DOMAIN catalog
     /\ libCall.failAt = 0) =>
        /\ ~libRet.raised
        /\ libRet.value.table_name = libCall.table_name
        /\ libRet.value.columns = <<>>
        /\ libRet.value.foreign_keys = <<>>
        /\ libRet.value.indexes = <<>>

C7_Witness ==
    /\ libCall.fn = "get_table_schema"
    /\ libCall.table_name = Orders
    /\ libCall.failAt = 0
    /\ DOMAIN catalog = TableNames
    /\ ~libRet.raised
    /\ libRet.value.columns = <<>>

\* C8: when the count query of the i-th table fails, get_table_counts issues
\* no count query for a later table and returns no mapping, and the
\* table-counts command emits no table_counts result.
FailedStmtIsLast(q) == \A i \in DOMAIN q : ~q[i].ok => i = Len(q)

C8_CountFailureAborts ==
    /\ (libCall.fn = "get_table_counts" /\ libRet.raised) =>
         LET q == libRet.stmts
         IN /\ libRet.value = Null
            /\ Len(q) >= 1
            /\ Len(q) <= Len(libCall.table_names)
            /\ ~q[Len(q)].ok
            /\ FailedStmtIsLast(q)
            /\ \A i \in DOMAIN q :
                 q[i].op = "count" /\ q[i].arg = quote_identifier(libCall.table_names[i])
    /\ (libCall.fn = "get_table_counts" /\ ~libRet.raised) =>
         \A i \in DOMAIN libRet.stmts : libRet.stmts[i].ok
    /\ cmd = "counts" =>
         /\ FailedStmtIsLast(stmts)
         /\ SomeStmtFailed => (NoOutput /\ result = EmptyDict)

C8_Witness ==
    /\ libCall.fn = "get_table_counts"
    /\ libCall.table_names = <<UsersQ, Sq>>
    /\ libCall.failAt = 1
    /\ {UsersQ, Sq} \subseteq DOMAIN catalog
    /\ libRet.raised
    /\ Len(libRet.stmts) = 1

\* C9: a run that gets as far as the cache lookup invokes the external
\* analyzer iff --force is given or no result is cached for the file's content
\* hash; a run in which the analyzer fails leaves the cache unchanged.
Decided ==
    /\ cmd = "analyzer"
    /\ schemasFile \in Contents
    /\ ValidJson(schemasFile)
    /\ pc \in {"output", "exit"}

InvokedIffForcedOrUncached ==
    Decided =>
        (invoked <=> (args.force \/ ContentHash(schemasFile) \notin DOMAIN cacheAtStart))

FailureKeepsCache ==
    (cmd = "analyzer" /\ pc = "exit" /\ cause = "analyzer_failed") =>
        (invoked /\ cache = cacheAtStart)

\* The analysis this run has put out, if it has put one out, is a.
PutOutOnly(a) ==
    /\ \A i \in DOMAIN stdout : args.output \/ stdout[i] = a
    /\ \A f \in DOMAIN files : files[f] = a

CallStarts ==
    /\ libCall = Idle
    /\ libCall'.fn \in {"get_table_names", "get_table_schema", "get_table_counts"}

SameCallSameResult ==
    \A s \in seen : (libCall = s.call /\ catalog = s.cat) => libRet = s.ret

====
